---- MODULE Spec2Model ----
(***************************************************************************)
(* A model of the numerical core of milkyway.py: amplitude/phase           *)
(* normalisation, the precession rate, the two phase-interval wraps, the   *)
(* height/velocity phase difference and the phase differences between      *)
(* consecutive radii, as the dashboard script applies them to the loaded   *)
(* parameter table.                                                        *)
(*                                                                         *)
(* The table columns are float64.  A float is modelled as an integer       *)
(* number of quanta (Unit quanta make one degree) that fits a significand  *)
(* of Mant bits; every arithmetic result is rounded to the nearest such    *)
(* number, ties to even, as IEEE-754 does with its 53 bits.                *)
(***************************************************************************)
EXTENDS Integers, Sequences, FiniteSets, TLC

VARIABLES
    pc,              \* position of the script run
    csv,             \* rows of total_data_df.csv (never written by the script)
    two_df,          \* the module-level table read from the csv
    two_pos_df,      \* the table a tab works on
    start_point,           \* tab5: start of the 360-degree interval
    adjusted_height_df,    \* tab5: adjust_phase_shifts on C_height
    adjusted_velocity_df,  \* tab5: adjust_phase_shifts on C_velocity
    adjusted_combined_df,  \* tab5: the two adjusted tables, concatenated
    start_interval,        \* tab6: lower edge of the custom window
    end_interval,          \* tab6: upper edge of the custom window
    arg,                   \* adjust_value: the value it was called with
    value,                 \* adjust_value: its local, as the loops change it
    ret,                   \* adjust_value: "pending", "value" or "None"
    odd_iterations,        \* adjust_value: parity of the loop bodies executed
    r_selector,            \* tab6: the radii picked in the multiselect, as picked
    metric_selector,       \* tab6: "height" or "velocity"
    diff_df,               \* plot_differences: the table it plotted, raw
    adjusted_df,           \* plot_differences: the table it plotted, windowed
    saved_df,              \* tab6: the table of the graph 'Save Graph' saved
    outcome,               \* tab6: what the run showed or raised
    selected_R_pha,        \* tab6: the radius picked for height against velocity
    merged_df              \* tab6: what calculate_phase_difference returned

tableVars == <<csv, two_df, two_pos_df>>
shiftVars == <<start_point, adjusted_height_df, adjusted_velocity_df,
               adjusted_combined_df>>
windowVars == <<start_interval, end_interval>>
valueVars == <<arg, value, ret, odd_iterations>>
radiiVars == <<r_selector, metric_selector, diff_df, adjusted_df, saved_df,
               outcome>>
hvVars == <<selected_R_pha, merged_df>>
vars == <<pc, tableVars, shiftVars, windowVars, valueVars, radiiVars, hvVars>>

\* the variables a part of the script leaves alone
notTable == <<shiftVars, windowVars, valueVars, radiiVars>>
notShift == <<tableVars, windowVars, valueVars, radiiVars, hvVars>>
notValue == <<tableVars, shiftVars, windowVars, radiiVars, hvVars>>
notRadii == <<tableVars, shiftVars, windowVars, valueVars, hvVars>>

\* what a variable holds before the script has assigned it
Unset == <<>>

NoShift ==
    /\ start_point = 0
    /\ adjusted_height_df = Unset
    /\ adjusted_velocity_df = Unset
    /\ adjusted_combined_df = Unset

NoTable == csv = Unset /\ two_df = Unset /\ two_pos_df = Unset

NoWindow == start_interval = 0 /\ end_interval = 0

NoRadii ==
    /\ r_selector = <<>>
    /\ metric_selector = "height"
    /\ diff_df = Unset
    /\ adjusted_df = Unset
    /\ saved_df = Unset
    /\ outcome = "none"

NoHV == selected_R_pha = 0 /\ merged_df = Unset

NoValue == arg = 0 /\ value = 0 /\ ret = "pending" /\ odd_iterations = FALSE

-----------------------------------------------------------------------------
(* float64 arithmetic, scaled down *)

Mant == 10
Unit == 8

RECURSIVE Pow2(_)
Pow2(n) == IF n <= 0 THEN 1 ELSE 2 * Pow2(n - 1)

Abs(x) == IF x < 0 THEN 0 - x ELSE x

RECURSIVE UlpOf(_, _)
\* the spacing of floats around the magnitude ax: the least 2^e with ax < 2^(Mant+e)
UlpOf(ax, ulp) == IF ax < Pow2(Mant) * ulp THEN ulp ELSE UlpOf(ax, 2 * ulp)

\* round to nearest float, ties to the even significand
Round(x) ==
    LET ax   == Abs(x)
        ulp  == UlpOf(ax, 1)
        lo   == (ax \div ulp) * ulp
        rem  == ax - lo
        near == IF 2 * rem < ulp THEN lo
                ELSE IF 2 * rem > ulp THEN lo + ulp
                ELSE IF (lo \div ulp) % 2 = 0 THEN lo ELSE lo + ulp
    IN  IF x < 0 THEN 0 - near ELSE near

FAdd(a, b) == Round(a + b)
FSub(a, b) == Round(a - b)

\* C fmod: exact, carries the sign of the dividend
Fmod(a, b) == IF a < 0 THEN 0 - ((0 - a) % b) ELSE a % b

\* float % with a positive divisor: fmod, and a negative remainder has the
\* divisor added to it (a rounded addition)
FMod(a, b) ==
    LET m == Fmod(a, b)
    IN  IF m < 0 THEN FAdd(m, b) ELSE m

\* the literals 180 and 360 of the source, in quanta
Deg(d) == d * Unit

\* the nearest float to the quotient num / den of two integers, den > 0
RoundRat(num, den) ==
    LET an   == Abs(num)
        ulp  == UlpOf(an \div den, 1)
        lo   == (an \div (den * ulp)) * ulp
        rem  == an - lo * den
        near == IF 2 * rem < ulp * den THEN lo
                ELSE IF 2 * rem > ulp * den THEN lo + ulp
                ELSE IF (lo \div ulp) % 2 = 0 THEN lo ELSE lo + ulp
    IN  IF num < 0 THEN 0 - near ELSE near

\* a float that may not be finite: what a division can give
Finite(v) == [kind |-> "finite", v |-> v]
Infinite(sign) == [kind |-> "inf", v |-> sign]
NotANumber == [kind |-> "nan", v |-> 0]

\* a / b of two floats given as the integers num_a / den and num_b / den of a
\* common denominator, in quanta: x / 0 is inf, -inf or nan and raises
\* nothing
FDiv(num_a, num_b) ==
    IF num_b = 0
    THEN IF num_a = 0 THEN NotANumber
         ELSE Infinite(IF num_a > 0 THEN 1 ELSE 0 - 1)
    ELSE Finite(RoundRat((IF num_b < 0 THEN 0 - num_a ELSE num_a) * Unit, Abs(num_b)))

\* x - y of a finite x and a y that may not be finite
FSubFrom(x, y) ==
    IF y.kind = "nan" THEN NotANumber
    ELSE IF y.kind = "inf" THEN Infinite(0 - y.v)
    ELSE Finite(FSub(x.v, y.v))

-----------------------------------------------------------------------------
(* sine_function *)

\* the sine of an angle in degrees that is a multiple of 90, where it is one
\* of 0, 1 and -1
SinDeg(x) ==
    LET m == x % Deg(360)
    IN  CASE m = 0        -> 0
          [] m = Deg(90)  -> 1
          [] m = Deg(180) -> 0
          [] m = Deg(270) -> 0 - 1

\* line 42: A * np.sin(np.deg2rad(phi + C)) + D
sine_function(phi, A, C, D) == A * SinDeg(FAdd(phi, C)) + D

-----------------------------------------------------------------------------
(* adjust_amplitude_phase *)

adjust_amplitude_phase_abs_only(df, amp_col, phase_col) ==
    \* faulty variant: the amplitude is made positive and the phase not flipped
    LET absd == [i \in DOMAIN df |-> [df[i] EXCEPT ![amp_col] = Abs(@)]]
    IN  [i \in DOMAIN df |-> [absd[i] EXCEPT ![phase_col] = FMod(@, Deg(360))]]

adjust_amplitude_phase_always(df, amp_col, phase_col) ==
    \* faulty variant: 180 is added to every phase, whatever the amplitude's sign
    LET flipped == [i \in DOMAIN df |->
                       [df[i] EXCEPT ![phase_col] = FAdd(@, Deg(180))]]
        absd    == [i \in DOMAIN df |-> [flipped[i] EXCEPT ![amp_col] = Abs(@)]]
    IN  [i \in DOMAIN df |-> [absd[i] EXCEPT ![phase_col] = FMod(@, Deg(360))]]

adjust_amplitude_phase_unsigned(df, amp_col, phase_col) ==
    \* faulty variant: the sign test is made after the amplitude was replaced by abs
    LET absd    == [i \in DOMAIN df |-> [df[i] EXCEPT ![amp_col] = Abs(@)]]
        flipped == [i \in DOMAIN df |->
                       [absd[i] EXCEPT ![phase_col] =
                           IF absd[i][amp_col] < 0 THEN FAdd(@, Deg(180)) ELSE @]]
    IN  [i \in DOMAIN df |-> [flipped[i] EXCEPT ![phase_col] = FMod(@, Deg(360))]]

adjust_amplitude_phase_both(df, amp_col, phase_col) ==
    \* faulty variant: the final % 360 is applied to both phase columns
    LET flipped == [i \in DOMAIN df |->
                       [df[i] EXCEPT ![phase_col] =
                           IF df[i][amp_col] < 0 THEN FAdd(@, Deg(180)) ELSE @]]
        absd    == [i \in DOMAIN df |-> [flipped[i] EXCEPT ![amp_col] = Abs(@)]]
    IN  [i \in DOMAIN df |->
            [absd[i] EXCEPT !.C_height = FMod(@, Deg(360)),
                            !.C_velocity = FMod(@, Deg(360))]]

adjust_amplitude_phase(df, amp_col, phase_col) ==
    \* line 56: np.where on the amplitude as read; line 57: abs; line 59: % 360
    LET flipped == [i \in DOMAIN df |->
                       [df[i] EXCEPT ![phase_col] =
                           IF df[i][amp_col] < 0 THEN FAdd(@, Deg(180)) ELSE @]]
        absd    == [i \in DOMAIN df |-> [flipped[i] EXCEPT ![amp_col] = Abs(@)]]
    IN  [i \in DOMAIN df |-> [absd[i] EXCEPT ![phase_col] = FMod(@, Deg(360))]]

-----------------------------------------------------------------------------
(* calculate_phase_difference *)

adjust_phase_differencehv_raw(diff) ==
    \* faulty variant: a difference above 180 is returned as it is
    IF diff < Deg(0 - 180) THEN FAdd(diff, Deg(360)) ELSE diff

adjust_phase_differencehv_upper(diff) ==
    \* faulty variant: a difference below -180 is returned as it is
    IF diff > Deg(180) THEN FSub(diff, Deg(360)) ELSE diff

adjust_phase_differencehv_inclusive(diff) ==
    \* faulty variant: the first test is >=, so that 180 itself is brought down
    IF diff >= Deg(180) THEN FSub(diff, Deg(360))
    ELSE IF diff < Deg(0 - 180) THEN FAdd(diff, Deg(360))
    ELSE diff

\* lines 183-188
adjust_phase_differencehv(diff) ==
    IF diff > Deg(180) THEN FSub(diff, Deg(360))
    ELSE IF diff < Deg(0 - 180) THEN FAdd(diff, Deg(360))
    ELSE diff

sort_by_t_skipped(df) ==
    \* faulty variant: the rows are left in the order they were read
    df

\* line 192: sort_values(by='t')
sort_by_t(df) == SortSeq(df, LAMBDA a, b : a.t < b.t)

\* lines 190-198: the rows of the radius, by t, with the column Phase_Difference
calculate_phase_difference(combined_params_df, selected_R) ==
    LET filtered_params ==
            sort_by_t(SelectSeq(combined_params_df, LAMBDA row : row.R = selected_R))
    IN  [i \in DOMAIN filtered_params |->
            filtered_params[i] @@
            ("Phase_Difference" :>
                adjust_phase_differencehv(
                    FSub(filtered_params[i].C_height, filtered_params[i].C_velocity)))]

-----------------------------------------------------------------------------
(* the tables the csv may hold *)

MaxTurn == 1
MaxAmp == 3

\* phases on both sides of every boundary of the wrap, and the two floats
\* next to zero
PhaseGrid ==
    {Round(Deg(d) + Deg(360) * k) :
        d \in {0, 10, 180, 190, 350}, k \in (0 - MaxTurn)..MaxTurn}
    \cup {0 - 1, 1}

AmpGrid == {0 - MaxAmp, 0 - 1, 0, MaxAmp}

Row(R, t, Ah, Ch, Av, Cv) ==
    [R |-> R, t |-> t, A_height |-> Ah, C_height |-> Ch, D_height |-> 1,
     A_velocity |-> Av, C_velocity |-> Cv, D_velocity |-> 0 - 2]

\* two rows of radius 1, the later time first and holding the other row's
\* fits swapped, and between them a row of radius 4 (8.5 kpc) whose velocity
\* amplitude is 230 times its height amplitude (46 and 0.2)
NormTables ==
    {<<Row(1, 1, Av, Cv, Ah, Ch), Row(4, 0, 1, Deg(10), 230, Deg(350)),
       Row(1, 0, Ah, Ch, Av, Cv)>> :
        Ah \in AmpGrid, Ch \in PhaseGrid, Av \in {0 - 1, 2},
        Cv \in {0 - 1, Deg(10), Deg(180), Deg(350)}}

-----------------------------------------------------------------------------
(* the script's normalisation calls, in the order a run makes them *)

InitNormalize ==
    /\ csv \in NormTables
    /\ two_df = csv
    /\ two_pos_df = csv
    /\ pc = "tab1_height"
    /\ NoShift
    /\ NoWindow
    /\ NoValue
    /\ NoRadii
    /\ selected_R_pha \in {csv[i].R : i \in DOMAIN csv}
    /\ merged_df = Unset

\* line 342: two_pos_df is two_df itself, normalised in place
Tab1NormalizeHeight ==
    /\ pc = "tab1_height"
    /\ two_df' = adjust_amplitude_phase(two_df, "A_height", "C_height")
    /\ two_pos_df' = two_df'
    /\ pc' = "tab1_velocity"
    /\ UNCHANGED <<csv, notTable, hvVars>>

Tab1NormalizeVelocity ==
    /\ pc = "tab1_velocity"
    /\ two_df' = adjust_amplitude_phase(two_pos_df, "A_velocity", "C_velocity")
    /\ two_pos_df' = two_df'
    /\ pc' = "tab1_omega"
    /\ UNCHANGED <<csv, notTable, hvVars>>

\* twice the radius in kpc of the radius index R, which stands for 4.5 + R
TwiceKpc(R) == 9 + 2 * R

Omega_Warp_inverted(row) ==
    \* faulty variant: the height amplitude is divided by the velocity amplitude
    FSubFrom(FDiv(2 * 230, TwiceKpc(row.R)), FDiv(row.A_height, row.A_velocity))

\* line 346: (230 / R) - (A_velocity / A_height), of one row
Omega_Warp(row) ==
    FSubFrom(FDiv(2 * 230, TwiceKpc(row.R)), FDiv(row.A_velocity, row.A_height))

\* line 346: the column Omega_Warp is added to two_pos_df, which is two_df
Tab1OmegaWarp ==
    /\ pc = "tab1_omega"
    /\ two_df' = [i \in DOMAIN two_pos_df |->
                      two_pos_df[i] @@ ("Omega_Warp" :> Omega_Warp(two_pos_df[i]))]
    /\ two_pos_df' = two_df'
    /\ pc' = "tab5_height"
    /\ UNCHANGED <<csv, notTable, hvVars>>

\* line 594: a copy of two_df is normalised
Tab5NormalizeHeight ==
    /\ pc = "tab5_height"
    /\ two_pos_df' = adjust_amplitude_phase(two_df, "A_height", "C_height")
    /\ pc' = "tab5_velocity"
    /\ UNCHANGED <<csv, two_df, notTable, hvVars>>

Tab5NormalizeVelocity ==
    /\ pc = "tab5_velocity"
    /\ two_pos_df' = adjust_amplitude_phase(two_pos_df, "A_velocity", "C_velocity")
    /\ pc' = "tab5_done"
    /\ UNCHANGED <<csv, two_df, notTable, hvVars>>

\* lines 698-701: the phase difference of the radius picked in the selectbox
Tab6PhaseDifference ==
    /\ pc = "tab5_done"
    /\ merged_df' = calculate_phase_difference(two_pos_df, selected_R_pha)
    /\ pc' = "tab6_hv_done"
    /\ UNCHANGED <<tableVars, notTable, selected_R_pha>>

\* a widget interaction reruns the script, which reads the csv again
Rerun ==
    /\ pc = "tab6_hv_done"
    /\ two_df' = csv
    /\ two_pos_df' = csv
    /\ merged_df' = Unset
    /\ pc' = "tab1_height"
    /\ UNCHANGED <<csv, notTable, selected_R_pha>>

NextNormalize ==
    \/ Tab1NormalizeHeight
    \/ Tab1NormalizeVelocity
    \/ Tab1OmegaWarp
    \/ Tab5NormalizeHeight
    \/ Tab5NormalizeVelocity
    \/ Tab6PhaseDifference
    \/ Rerun

SpecNormalize == InitNormalize /\ [][NextNormalize]_vars

-----------------------------------------------------------------------------
(* claims about adjust_amplitude_phase *)

HeightDone == pc # "tab1_height"
VelocityDone == pc \notin {"tab1_height", "tab1_velocity"}
HeightTwice == pc \in {"tab5_velocity", "tab5_done", "tab6_hv_done"}

Canonical(A, C) == A >= 0 /\ 0 <= C /\ C < Deg(360)

\* C1: after normalisation every amplitude is >= 0 and every phase lies in
\* [0, 360), whatever the amplitude and phase read from the csv.
C1_CanonicalAfterNormalize ==
    /\ HeightDone =>
        \A i \in DOMAIN two_df : Canonical(two_df[i].A_height, two_df[i].C_height)
    /\ VelocityDone =>
        \A i \in DOMAIN two_df : Canonical(two_df[i].A_velocity, two_df[i].C_velocity)

\* C2: normalising the already normalised table (tab5's copy of the table
\* tab1 normalised in place) gives the same amplitudes and phases.
C2_NormalizeIdempotent ==
    HeightTwice =>
        \A i \in DOMAIN two_df :
            /\ two_pos_df[i].A_height = two_df[i].A_height
            /\ two_pos_df[i].C_height = two_df[i].C_height
            /\ pc # "tab5_velocity" =>
                /\ two_pos_df[i].A_velocity = two_df[i].A_velocity
                /\ two_pos_df[i].C_velocity = two_df[i].C_velocity

\* C3: a pair read with A >= 0 and C in [0, 360) is returned unchanged.
C3_CanonicalFixedPoint ==
    /\ HeightDone =>
        \A i \in DOMAIN csv :
            Canonical(csv[i].A_height, csv[i].C_height) =>
                /\ two_df[i].A_height = csv[i].A_height
                /\ two_df[i].C_height = csv[i].C_height
    /\ VelocityDone =>
        \A i \in DOMAIN csv :
            Canonical(csv[i].A_velocity, csv[i].C_velocity) =>
                /\ two_df[i].A_velocity = csv[i].A_velocity
                /\ two_df[i].C_velocity = csv[i].C_velocity

C3_Witness ==
    /\ VelocityDone
    /\ \E i \in DOMAIN csv :
        /\ csv[i].A_height > 0 /\ csv[i].C_height = Deg(350)
        /\ two_df[i].A_height = csv[i].A_height /\ two_df[i].C_height = Deg(350)
    /\ \E i \in DOMAIN csv :
        /\ csv[i].A_height = 0 /\ csv[i].C_height = 0
        /\ two_df[i].A_height = 0 /\ two_df[i].C_height = 0

\* C4: a pair read with A < 0 becomes (abs(A), (C + 180) mod 360), the sum and
\* the remainder being those of float arithmetic; the sign tested is the one
\* the amplitude had when read.
C4_NegativeAmplitudeFlips ==
    /\ HeightDone =>
        \A i \in DOMAIN csv :
            csv[i].A_height < 0 =>
                /\ two_df[i].A_height = Abs(csv[i].A_height)
                /\ two_df[i].C_height = FMod(FAdd(csv[i].C_height, Deg(180)), Deg(360))
    /\ VelocityDone =>
        \A i \in DOMAIN csv :
            csv[i].A_velocity < 0 =>
                /\ two_df[i].A_velocity = Abs(csv[i].A_velocity)
                /\ two_df[i].C_velocity = FMod(FAdd(csv[i].C_velocity, Deg(180)), Deg(360))

\* the spec's example: (A = -3, C = 10) becomes (3, 190)
C4_Witness ==
    /\ HeightDone
    /\ \E i \in DOMAIN csv :
        /\ csv[i].A_height = 0 - 3 /\ csv[i].C_height = Deg(10)
        /\ two_df[i].A_height = 3 /\ two_df[i].C_height = Deg(190)

\* C23: normalising the height pair leaves every other column of every row
\* as it was read, the offsets, R and t are never changed, and the table
\* normalised height first, velocity second is the table that normalising
\* velocity first, height second gives.
C23_OnlyNamedPairChanges ==
    /\ pc = "tab1_velocity" =>
        \A i \in DOMAIN two_df :
            /\ two_df[i].A_velocity = csv[i].A_velocity
            /\ two_df[i].C_velocity = csv[i].C_velocity
    /\ \A i \in DOMAIN two_df :
        /\ two_df[i].D_height = csv[i].D_height
        /\ two_df[i].D_velocity = csv[i].D_velocity
        /\ two_df[i].R = csv[i].R
        /\ two_df[i].t = csv[i].t
    /\ pc = "tab1_omega" =>
        two_df = adjust_amplitude_phase(
                     adjust_amplitude_phase(csv, "A_velocity", "C_velocity"),
                     "A_height", "C_height")

\* the height pair of a row was flipped while its velocity pair, read with a
\* negative amplitude and a phase to wrap, is still as read
C23_Witness ==
    /\ pc = "tab1_velocity"
    /\ \E i \in DOMAIN two_df :
        /\ csv[i].A_height < 0
        /\ two_df[i].A_height = 0 - csv[i].A_height
        /\ two_df[i].C_height # csv[i].C_height
        /\ two_df[i].A_velocity < 0
        /\ two_df[i].C_velocity < 0

\* the angles the curves are compared at
PhiGrid == {Deg(0), Deg(90), Deg(180), Deg(270)}

QuarterTurns(C) == C % Deg(90) = 0

\* C26: the sine curve of the normalised parameters of a row is the curve
\* of the parameters read: at every angle that is a multiple of 90 degrees,
\* for every row whose phase is one, sine_function gives the same value for
\* (A, C, D) as read and as normalised.
C26_NormalizePreservesCurve ==
    VelocityDone =>
        \A i \in DOMAIN two_df : \A phi \in PhiGrid :
            /\ QuarterTurns(csv[i].C_height) =>
                sine_function(phi, two_df[i].A_height, two_df[i].C_height,
                              two_df[i].D_height)
                = sine_function(phi, csv[i].A_height, csv[i].C_height,
                                csv[i].D_height)
            /\ QuarterTurns(csv[i].C_velocity) =>
                sine_function(phi, two_df[i].A_velocity, two_df[i].C_velocity,
                              two_df[i].D_velocity)
                = sine_function(phi, csv[i].A_velocity, csv[i].C_velocity,
                                csv[i].D_velocity)

\* a row read with amplitude -3 and a phase of minus half a turn: at 90
\* degrees both curves are 3 above the offset
C26_Witness ==
    /\ VelocityDone
    /\ \E i \in DOMAIN two_df :
        /\ csv[i].A_height = 0 - 3
        /\ csv[i].C_height = Deg(0 - 180)
        /\ two_df[i].A_height = 3
        /\ two_df[i].C_height = 0
        /\ sine_function(Deg(90), csv[i].A_height, csv[i].C_height, csv[i].D_height)
           = csv[i].D_height + 3
        /\ sine_function(Deg(90), two_df[i].A_height, two_df[i].C_height,
                         two_df[i].D_height) = csv[i].D_height + 3

\* C22: at every point of a run the loaded table two_df holds, in every row,
\* the amplitudes and phases read from the csv.
C22_LoadedTableReadOnly ==
    \A i \in DOMAIN two_df :
        /\ two_df[i].A_height = csv[i].A_height
        /\ two_df[i].C_height = csv[i].C_height
        /\ two_df[i].A_velocity = csv[i].A_velocity
        /\ two_df[i].C_velocity = csv[i].C_velocity

-----------------------------------------------------------------------------
(* claims about tab1's precession rate *)

OmegaDone == pc \notin {"tab1_height", "tab1_velocity", "tab1_omega"}

\* C20: the precession rate of a row whose height amplitude is not zero is
\* 230 / R - A_velocity / A_height in float arithmetic, R the row's radius
\* and the amplitudes the absolute values of the two amplitudes read for that
\* row; nothing else of the table enters it.
C20_PrecessionRateOfRow ==
    OmegaDone =>
        \A i \in DOMAIN two_df :
            csv[i].A_height # 0 =>
                two_df[i].Omega_Warp =
                    Finite(FSub(RoundRat(2 * 230 * Unit, TwiceKpc(csv[i].R)),
                                RoundRat(Abs(csv[i].A_velocity) * Unit,
                                         Abs(csv[i].A_height))))

\* the spec's example, R = 8.5 with amplitudes 46 and 0.2: about -202.94;
\* and a row read with a negative velocity amplitude, whose rate is below
\* 230 / R all the same
C20_Witness ==
    /\ OmegaDone
    /\ \E i \in DOMAIN two_df :
        /\ two_df[i].R = 4
        /\ two_df[i].A_velocity = 230 * two_df[i].A_height
        /\ two_df[i].Omega_Warp.kind = "finite"
        /\ Deg(0 - 203) <= two_df[i].Omega_Warp.v
        /\ two_df[i].Omega_Warp.v <= Deg(0 - 202)
    /\ \E i \in DOMAIN two_df :
        /\ csv[i].A_velocity < 0
        /\ csv[i].A_height = MaxAmp
        /\ two_df[i].Omega_Warp.kind = "finite"
        /\ two_df[i].Omega_Warp.v < RoundRat(2 * 230 * Unit, TwiceKpc(csv[i].R))

\* C21: a row whose normalised height amplitude is 0 gets no number as its
\* precession rate (the rate is missing or marked as a division by zero),
\* and every other row gets a finite rate.
C21_ZeroHeightReported ==
    OmegaDone =>
        \A i \in DOMAIN two_df :
            IF two_df[i].A_height = 0
            THEN two_df[i].Omega_Warp.kind \notin {"finite", "inf"}
            ELSE two_df[i].Omega_Warp.kind = "finite"

-----------------------------------------------------------------------------
(* claims about calculate_phase_difference *)

PhaseDifferenceDone == pc = "tab6_hv_done"

\* C10 as stated: every height-velocity phase difference of normalised phases
\* in [0, 360) lies in (-180, 180], so it is never -180.
C10_DifferenceHalfOpen ==
    PhaseDifferenceDone =>
        \A i \in DOMAIN merged_df :
            (/\ Canonical(merged_df[i].A_height, merged_df[i].C_height)
             /\ Canonical(merged_df[i].A_velocity, merged_df[i].C_velocity)) =>
                /\ merged_df[i].Phase_Difference > Deg(0 - 180)
                /\ merged_df[i].Phase_Difference <= Deg(180)

\* C10 as amended: every height-velocity phase difference lies in the closed
\* interval [-180, 180], and it is -180 only where C_height - C_velocity is
\* exactly -180.
C10_DifferenceClosed ==
    PhaseDifferenceDone =>
        \A i \in DOMAIN merged_df :
            /\ merged_df[i].Phase_Difference >= Deg(0 - 180)
            /\ merged_df[i].Phase_Difference <= Deg(180)
            /\ merged_df[i].Phase_Difference = Deg(0 - 180) =>
                FSub(merged_df[i].C_height, merged_df[i].C_velocity) = Deg(0 - 180)

\* both wraps happened: a difference above 180 brought down, and one below
\* -180 brought up
C10_Witness ==
    /\ PhaseDifferenceDone
    /\ \E i \in DOMAIN merged_df :
        /\ merged_df[i].C_height - merged_df[i].C_velocity > Deg(180)
        /\ merged_df[i].Phase_Difference < 0
    /\ \E i \in DOMAIN merged_df :
        /\ merged_df[i].C_height - merged_df[i].C_velocity < Deg(0 - 180)
        /\ merged_df[i].Phase_Difference > 0

\* the difference as line 194 computes it, before adjust_phase_differencehv
raw_difference(row) == FSub(row.C_height, row.C_velocity)

\* C11: a row whose raw height-velocity difference is exactly 180 gets the
\* phase difference 180, and not -180.
C11_HalfTurnKept ==
    PhaseDifferenceDone =>
        \A i \in DOMAIN merged_df :
            raw_difference(merged_df[i]) = Deg(180) =>
                merged_df[i].Phase_Difference = Deg(180)

C11_Witness ==
    /\ PhaseDifferenceDone
    /\ \E i \in DOMAIN merged_df :
        /\ merged_df[i].C_height = Deg(190)
        /\ merged_df[i].C_velocity = Deg(10)
        /\ merged_df[i].Phase_Difference = Deg(180)

\* row j holds the phases of row i with height and velocity swapped
Swapped(i, j) ==
    /\ merged_df[j].C_height = merged_df[i].C_velocity
    /\ merged_df[j].C_velocity = merged_df[i].C_height

\* C12: of two rows holding the same two phases with height and velocity
\* swapped, one's raw difference is the negation of the other's, and so is
\* its phase difference unless the raw difference is exactly 180 or -180.
C12_Antisymmetric ==
    PhaseDifferenceDone =>
        \A i \in DOMAIN merged_df : \A j \in DOMAIN merged_df :
            Swapped(i, j) =>
                /\ raw_difference(merged_df[j]) = 0 - raw_difference(merged_df[i])
                /\ Abs(raw_difference(merged_df[i])) # Deg(180) =>
                    merged_df[j].Phase_Difference = 0 - merged_df[i].Phase_Difference

\* a swapped pair of rows, one wrapped down and the other wrapped up
C12_Witness ==
    /\ PhaseDifferenceDone
    /\ \E i \in DOMAIN merged_df : \E j \in DOMAIN merged_df :
        /\ Swapped(i, j)
        /\ raw_difference(merged_df[i]) > Deg(180)
        /\ merged_df[i].Phase_Difference < 0
        /\ merged_df[j].Phase_Difference = 0 - merged_df[i].Phase_Difference

\* the columns of merged row j that the input table has, as a row
InputColumns(j) == [c \in DOMAIN two_pos_df[1] |-> merged_df[j][c]]

RowsOfSelected == {i \in DOMAIN two_pos_df : two_pos_df[i].R = selected_R_pha}

\* C13: the table calculate_phase_difference returns holds exactly the input
\* rows of the selected radius, each once, in ascending order of t, whatever
\* order the input rows are in.
C13_SelectedRowsByTime ==
    PhaseDifferenceDone =>
        /\ Len(merged_df) = Cardinality(RowsOfSelected)
        /\ \A i \in RowsOfSelected :
               \E j \in DOMAIN merged_df : InputColumns(j) = two_pos_df[i]
        /\ \A j \in DOMAIN merged_df : merged_df[j].R = selected_R_pha
        /\ \A j \in DOMAIN merged_df : \A k \in DOMAIN merged_df :
               j < k => merged_df[j].t <= merged_df[k].t

\* the input held the later row of the radius first and a row of another
\* radius between the two
C13_Witness ==
    /\ PhaseDifferenceDone
    /\ selected_R_pha = 1
    /\ two_pos_df[1].R = 1 /\ two_pos_df[1].t = 1
    /\ two_pos_df[2].R = 4
    /\ two_pos_df[3].R = 1 /\ two_pos_df[3].t = 0
    /\ Len(merged_df) = 2
    /\ InputColumns(1) = two_pos_df[3]
    /\ InputColumns(2) = two_pos_df[1]

-----------------------------------------------------------------------------
(* adjust_phase_shifts and tab5's adjusted graph *)

adjust_phase_shifts_half(df, phase_col, start) ==
    \* faulty variant: the remainder is taken modulo 180
    [i \in DOMAIN df |->
        [df[i] EXCEPT ![phase_col] = FAdd(FMod(FSub(@, start), Deg(180)), start)]]

adjust_phase_shifts(df, phase_col, start) ==
    \* line 157: (df[phase_col] - start_point) % 360 + start_point
    [i \in DOMAIN df |->
        [df[i] EXCEPT ![phase_col] = FAdd(FMod(FSub(@, start), Deg(360)), start)]]

\* phases for the wrap: the grid, and the float just below the start point 10
ShiftGrid == PhaseGrid \cup {Deg(10) - 1}

StartGrid == {Deg(s) : s \in {0 - 360, 0 - 180, 0 - 10, 0, 10, 180}}

ShiftTables ==
    {<<Row(1, 0, 1, Ch, 1, Cv), Row(1, 1, 1, Cv, 1, Ch)>> :
        Ch \in ShiftGrid, Cv \in {0, Deg(190), Deg(350)}}

InitShift ==
    /\ csv \in ShiftTables
    /\ two_df = csv
    /\ two_pos_df = csv
    /\ pc = "tab5_input"
    /\ NoHV
    /\ start_point \in StartGrid
    /\ adjusted_height_df = Unset
    /\ adjusted_velocity_df = Unset
    /\ adjusted_combined_df = Unset
    /\ NoWindow
    /\ NoValue
    /\ NoRadii

\* lines 659-662: the 'See phase shift updated Graph' box is ticked
Tab5UpdateGraph ==
    /\ pc = "tab5_input"
    /\ NoHV
    /\ adjusted_height_df' = adjust_phase_shifts(two_pos_df, "C_height", start_point)
    /\ adjusted_velocity_df' = adjust_phase_shifts(two_pos_df, "C_velocity", start_point)
    /\ adjusted_combined_df' = adjusted_height_df' \o adjusted_velocity_df'
    /\ pc' = "tab5_plotted"
    /\ UNCHANGED <<notShift, start_point>>

NextShift == Tab5UpdateGraph

SpecShift == InitShift /\ [][NextShift]_vars

\* C5: adjust_phase_shifts returns, for every value and every start point, a
\* value in [start, start + 360), and with start = 0 the value's remainder
\* modulo 360.
C5_WrapToStartRange ==
    pc = "tab5_plotted" =>
        \A i \in DOMAIN adjusted_height_df :
            /\ start_point <= adjusted_height_df[i].C_height
            /\ adjusted_height_df[i].C_height < start_point + Deg(360)
            /\ start_point = 0 =>
                adjusted_height_df[i].C_height = FMod(two_pos_df[i].C_height, Deg(360))

\* C28: every C_height and every C_velocity of the table handed to the plot
\* of the adjusted graph lies in [start, start + 360).
C28_CombinedTableInRange ==
    pc = "tab5_plotted" =>
        \A i \in DOMAIN adjusted_combined_df :
            /\ start_point <= adjusted_combined_df[i].C_height
            /\ adjusted_combined_df[i].C_height < start_point + Deg(360)
            /\ start_point <= adjusted_combined_df[i].C_velocity
            /\ adjusted_combined_df[i].C_velocity < start_point + Deg(360)

-----------------------------------------------------------------------------
(* adjust_value, one loop iteration at a time *)

\* a float so large that adding or subtracting 360 rounds back to it
RECURSIVE UlpAbove(_, _)
UlpAbove(x, ulp) == IF ulp > x THEN ulp ELSE UlpAbove(x, 2 * ulp)
Absorbing == (Pow2(Mant - 1) + 1) * UlpAbove(2 * Deg(360), 1)

ValueGrid ==
    {Deg(d) : d \in {0 - 540, 0 - 360, 0 - 190, 0 - 180, 0 - 50, 0 - 10, 0,
                     10, 50, 180, 190, 360, 540}}
    \cup {0 - 1, 1, Absorbing, 0 - Absorbing}

\* <<start, end>>: narrow, one turn, two turns, a single point, reversed
WindowGrid ==
    {<<Deg(0 - 50), Deg(50)>>, <<Deg(0 - 180), Deg(180)>>, <<0, Deg(360)>>,
     <<0, Deg(720)>>, <<Deg(10), Deg(10)>>, <<Deg(50), Deg(0 - 50)>>}

InitAdjustValue ==
    /\ pc = "while_below"
    /\ NoTable
    /\ NoHV
    /\ NoShift
    /\ NoRadii
    /\ \E w \in WindowGrid : start_interval = w[1] /\ end_interval = w[2]
    /\ arg \in ValueGrid
    /\ value = arg
    /\ ret = "pending"
    /\ odd_iterations = FALSE

\* lines 776-777: while value < start_interval: value += 360
WhileBelow ==
    /\ pc = "while_below"
    /\ IF value < start_interval
       THEN /\ value' = FAdd(value, Deg(360))
            /\ odd_iterations' = ~odd_iterations
            /\ pc' = "while_below"
       ELSE /\ pc' = "while_above"
            /\ UNCHANGED <<value, odd_iterations>>
    /\ UNCHANGED <<notValue, arg, ret>>

\* lines 778-779: while value > end_interval: value -= 360
WhileAbove ==
    /\ pc = "while_above"
    /\ IF value > end_interval
       THEN /\ value' = FSub(value, Deg(360))
            /\ odd_iterations' = ~odd_iterations
            /\ pc' = "while_above"
       ELSE /\ pc' = "return"
            /\ UNCHANGED <<value, odd_iterations>>
    /\ UNCHANGED <<notValue, arg, ret>>

ReturnValue_exclusive ==
    \* faulty variant: the window's edges are excluded
    /\ pc = "return"
    /\ ret' = IF start_interval < value /\ value < end_interval
              THEN "value" ELSE "None"
    /\ pc' = "done"
    /\ UNCHANGED <<notValue, arg, value, odd_iterations>>

\* line 780: return value if start_interval <= value <= end_interval else None
ReturnValue ==
    /\ pc = "return"
    /\ ret' = IF start_interval <= value /\ value <= end_interval
              THEN "value" ELSE "None"
    /\ pc' = "done"
    /\ UNCHANGED <<notValue, arg, value, odd_iterations>>

NextAdjustValue ==
    \/ WhileBelow
    \/ WhileAbove
    \/ ReturnValue

SpecAdjustValue == InitAdjustValue /\ [][NextAdjustValue]_vars

\* the interpreter executes the next statement as long as there is one
FairSpecAdjustValue == SpecAdjustValue /\ WF_vars(NextAdjustValue)

\* C6: a value that already lies in [start, end], edges included, is returned
\* as it is, and not as None.
C6_WindowRoundTrip ==
    (pc = "done" /\ start_interval <= arg /\ arg <= end_interval) =>
        (ret = "value" /\ value = arg)

C6_Witness ==
    /\ pc = "done"
    /\ start_interval < end_interval
    /\ arg = end_interval
    /\ ret = "value"
    /\ value = arg

\* C8: for every finite value and every window with end > start the two loops
\* finish and a result is returned.
C8_WrapTerminates == (start_interval < end_interval) => <>(pc = "done")

\* some whole number of turns added to v gives a value in [start, end]: the
\* largest such sum that is at most end is at least start
Wrappable(v, start, end) ==
    v + Deg(360) * ((end - v) \div Deg(360)) >= start

\* C27: for a window with start <= end, adjust_value returns a value, and
\* not None, exactly for the arguments that some whole number of turns
\* brings into [start, end]: such an argument gets a value returned, and a
\* value is returned for no other.
C27_ReturnedIffWrappable ==
    /\ (start_interval <= end_interval
            /\ Wrappable(arg, start_interval, end_interval))
        => <>(pc = "done" /\ ret = "value")
    /\ [](pc = "done" /\ start_interval <= end_interval /\ ret = "value"
            => Wrappable(arg, start_interval, end_interval))

-----------------------------------------------------------------------------
(* tab6: phase difference between consecutive radii *)

\* A difference table: cols names its difference columns, one <<r1, r2>> per
\* pair; a row holds t and one cell per column, <<v>> for the float v and <<>>
\* for NaN (a missing value).
NaN == <<>>

metric_column(metric) == IF metric = "height" THEN "C_height" ELSE "C_velocity"

rows_of_radius(df, r) == SelectSeq(df, LAMBDA row : row.R = r)

merge_on_t_by_position(df_r1, df_r2, col) ==
    \* faulty variant: the rows are paired by their position, not by t
    [j \in 1..(IF Len(df_r1) < Len(df_r2) THEN Len(df_r1) ELSE Len(df_r2)) |->
        [t |-> df_r1[j].t, diff |-> FSub(df_r1[j][col], df_r2[j][col])]]

\* line 747-748: pd.merge(df_r1, df_r2, on='t') and the difference column;
\* an inner join keeps the left table's row order
RECURSIVE merge_on_t(_, _, _)
merge_on_t(df_r1, df_r2, col) ==
    IF df_r1 = <<>> THEN <<>>
    ELSE LET l       == Head(df_r1)
             matches == SelectSeq(df_r2, LAMBDA x : x.t = l.t)
         IN  [j \in 1..Len(matches) |->
                 [t |-> l.t, diff |-> FSub(l[col], matches[j][col])]]
             \o merge_on_t(Tail(df_r1), df_r2, col)

difference_frames_from_first(df, selected_r_values, col, i) ==
    \* faulty variant: every radius after the first is paired with the first
    [k \in 1..(Len(selected_r_values) - 1) |->
        [pair |-> <<selected_r_values[1], selected_r_values[k + 1]>>,
         rows |-> merge_on_t(rows_of_radius(df, selected_r_values[1]),
                             rows_of_radius(df, selected_r_values[k + 1]), col)]]

\* lines 731-749: one frame per pair of neighbours in the list, a pair with
\* an empty side skipped
RECURSIVE difference_frames(_, _, _, _)
difference_frames(df, selected_r_values, col, i) ==
    IF i > Len(selected_r_values) - 1 THEN <<>>
    ELSE LET r1    == selected_r_values[i]
             r2    == selected_r_values[i + 1]
             df_r1 == rows_of_radius(df, r1)
             df_r2 == rows_of_radius(df, r2)
             rest  == difference_frames(df, selected_r_values, col, i + 1)
         IN  IF df_r1 = <<>> \/ df_r2 = <<>> THEN rest
             ELSE <<[pair |-> <<r1, r2>>, rows |-> merge_on_t(df_r1, df_r2, col)]>>
                  \o rest

\* line 751: pd.concat with ignore_index: the frames' rows one after the
\* other, a frame's rows holding NaN in the other frames' columns
RECURSIVE concat_rows(_, _)
concat_rows(frames, k) ==
    IF k > Len(frames) THEN <<>>
    ELSE [j \in 1..Len(frames[k].rows) |->
             [t     |-> frames[k].rows[j].t,
              cells |-> [c \in 1..Len(frames) |->
                            IF c = k THEN <<frames[k].rows[j].diff>> ELSE NaN]]]
         \o concat_rows(frames, k + 1)

\* pd.concat of an empty list raises ValueError
calculate_differences(df, selected_r_values, metric) ==
    LET frames == difference_frames(df, selected_r_values, metric_column(metric), 1)
    IN  IF frames = <<>>
        THEN [raised |-> "ValueError", cols |-> <<>>, rows |-> <<>>]
        ELSE [raised |-> "none",
              cols   |-> [k \in 1..Len(frames) |-> frames[k].pair],
              rows   |-> concat_rows(frames, 1)]

RECURSIVE add_while_below(_, _)
add_while_below(v, start) ==
    IF v < start THEN add_while_below(FAdd(v, Deg(360)), start) ELSE v

RECURSIVE subtract_while_above(_, _)
subtract_while_above(v, end) ==
    IF v > end THEN subtract_while_above(FSub(v, Deg(360)), end) ELSE v

adjust_value_unchecked(cell, start, end) ==
    \* faulty variant: the loops' result is returned without the final test
    IF cell = NaN THEN NaN
    ELSE <<subtract_while_above(add_while_below(cell[1], start), end)>>

\* lines 776-780 on one cell; a comparison with NaN is false, so NaN passes
\* both loops and fails the final test: None, which the column holds as NaN
adjust_value(cell, start, end) ==
    IF cell = NaN THEN NaN
    ELSE LET v == subtract_while_above(add_while_below(cell[1], start), end)
         IN  IF start <= v /\ v <= end THEN <<v>> ELSE NaN

dropna(rows) ==
    SelectSeq(rows, LAMBDA row : \A c \in DOMAIN row.cells : row.cells[c] # NaN)

\* lines 782-786: every difference column through adjust_value, then dropna
adjust_phase_interval(df, start, end) ==
    [df EXCEPT !.rows =
        dropna([j \in DOMAIN df.rows |->
                   [df.rows[j] EXCEPT !.cells =
                       [c \in DOMAIN @ |-> adjust_value(@[c], start, end)]]])]

sorted(seq) == SortSeq(seq, LAMBDA a, b : a < b)

consecutive_increasing(sel) ==
    \* faulty variant: the radii only have to increase
    \A i \in 1..(Len(sel) - 1) : sel[i] < sel[i + 1]

\* line 804: each radius is the one before it plus 1
consecutive(sel) == \A i \in 1..(Len(sel) - 1) : sel[i] + 1 = sel[i + 1]

\* normalised phases at three radii and two times; radius index k stands for
\* 4.5 + k kpc, so neighbours in the data are 1 apart as in the csv.  The
\* second row of radius 2 is of time t4: 1 as at the other radii, or 2, and
\* then time 1 is missing at radius 2 and time 2 at radii 1 and 3.
PhaseChoice == {0, Deg(10), Deg(190), Deg(350)}

RadiiRows(a, b, c, t4) ==
    <<Row(1, 0, 1, a, 2, Deg(10)),  Row(1, 1, 1, b, 2, c),
      Row(2, 0, 1, c, 2, a),        Row(2, t4, 1, Deg(10), 2, Deg(350)),
      Row(3, 0, 1, Deg(350), 2, b), Row(3, 1, 1, Deg(190), 2, 0)>>

\* the order the csv holds the rows in: by radius and time, or mixed
RowOrders == {<<1, 2, 3, 4, 5, 6>>, <<2, 3, 1, 4, 6, 5>>}

RadiiTables ==
    {[k \in 1..6 |-> RadiiRows(a, b, c, t4)[order[k]]] :
        a \in PhaseChoice, b \in PhaseChoice, c \in PhaseChoice,
        t4 \in {1, 2}, order \in RowOrders}

Selections ==
    {<<>>, <<1>>, <<1, 2>>, <<2, 1>>, <<2, 3>>, <<1, 2, 3>>, <<3, 1, 2>>, <<1, 3>>}

InitRadii ==
    /\ pc = "tab6_widgets"
    /\ NoHV
    /\ csv \in RadiiTables
    /\ two_df = csv
    /\ two_pos_df = csv
    /\ NoShift
    /\ NoValue
    /\ \E w \in WindowGrid : start_interval = w[1] /\ end_interval = w[2]
    /\ r_selector \in Selections
    /\ metric_selector \in {"height", "velocity"}
    /\ diff_df = Unset
    /\ adjusted_df = Unset
    /\ saved_df = Unset
    /\ outcome = "none"

\* lines 848-851: nothing is plotted for no radius or a single one, and the
\* widgets of the window and of 'Save Graph' are not shown
Tab6TooFewRadii ==
    /\ pc = "tab6_widgets"
    /\ Len(r_selector) < 2
    /\ outcome' = IF r_selector = <<>>
                  THEN "No R values selected, so data cannot be plotted."
                  ELSE "Please select at least two consecutive R values."
    /\ pc' = "tab6_too_few"
    /\ UNCHANGED <<notRadii, r_selector, metric_selector, diff_df, adjusted_df,
                   saved_df>>

\* lines 853-855 and plot_differences(adjusted=False), lines 801-829
Tab6PlotDifferences ==
    /\ pc = "tab6_widgets"
    /\ Len(r_selector) >= 2
    /\ LET selected_r_values == sorted(r_selector)
           diffs == calculate_differences(two_pos_df, selected_r_values, metric_selector)
       IN  IF ~consecutive(selected_r_values)
           THEN /\ outcome' = "Please select consecutive R values."
                /\ UNCHANGED diff_df
           ELSE /\ outcome' = IF diffs.raised = "none" THEN "plotted" ELSE diffs.raised
                /\ diff_df' = diffs
    /\ pc' = "tab6_plotted"
    /\ UNCHANGED <<notRadii, r_selector, metric_selector, adjusted_df, saved_df>>

\* lines 866-867 and plot_differences(adjusted=True): 'See Updated Graph'
Tab6UpdatedGraph ==
    /\ pc = "tab6_plotted"
    /\ outcome # "ValueError"
    /\ LET selected_r_values == sorted(r_selector)
           diffs == calculate_differences(two_pos_df, selected_r_values, metric_selector)
       IN  IF ~consecutive(selected_r_values)
           THEN /\ outcome' = "Please select consecutive R values."
                /\ UNCHANGED adjusted_df
           ELSE /\ outcome' = IF diffs.raised = "none" THEN "plotted" ELSE diffs.raised
                /\ adjusted_df' =
                       IF diffs.raised = "none"
                       THEN adjust_phase_interval(diffs, start_interval, end_interval)
                       ELSE diffs
    /\ pc' = "tab6_updated"
    /\ UNCHANGED <<notRadii, r_selector, metric_selector, diff_df, saved_df>>

\* lines 872-895, the button 'Save Graph': with 'See Updated Graph' ticked
\* the differences are computed again, from r_selector as it was picked, and
\* the graph of the windowed table is saved; without it st.error tells that
\* there is no updated graph to save
Tab6SaveGraph ==
    /\ pc \in {"tab6_plotted", "tab6_updated"}
    /\ outcome # "ValueError"
    /\ IF pc = "tab6_plotted"
       THEN UNCHANGED saved_df
       ELSE LET diffs == calculate_differences(two_pos_df, r_selector, metric_selector)
            IN  saved_df' =
                    IF diffs.raised = "none"
                    THEN adjust_phase_interval(diffs, start_interval, end_interval)
                    ELSE diffs
    /\ pc' = "tab6_saved"
    /\ UNCHANGED <<notRadii, r_selector, metric_selector, diff_df, adjusted_df,
                   outcome>>

NextRadii ==
    \/ Tab6TooFewRadii
    \/ Tab6PlotDifferences
    \/ Tab6UpdatedGraph
    \/ Tab6SaveGraph

SpecRadii == InitRadii /\ [][NextRadii]_vars

-----------------------------------------------------------------------------
(* claims about calculate_differences *)

DifferencesDone == pc # "tab6_widgets" /\ outcome = "plotted"

\* the times the table holds for a radius, and the phase fitted at one
TimesOf(r) == {two_pos_df[i].t : i \in {k \in DOMAIN two_pos_df : two_pos_df[k].R = r}}
PhaseAt(r, t) ==
    LET i == CHOOSE k \in DOMAIN two_pos_df : two_pos_df[k].R = r /\ two_pos_df[k].t = t
    IN  two_pos_df[i][metric_column(metric_selector)]

\* the records of difference column c: the rows holding a value there
RecordsOf(df, c) == {j \in DOMAIN df.rows : df.rows[j].cells[c] # NaN}

\* C14: the difference column of a pair (r1, r2) holds one record for each
\* time the table has at both radii, its value the phase at r1 minus the
\* phase at r2, and none for a time it has at one radius only; such a time
\* raises no error.
C14_InnerJoinOnTime ==
    (pc # "tab6_widgets" /\ Len(r_selector) >= 2 /\ consecutive(sorted(r_selector))) =>
        /\ outcome = "plotted"
        /\ \A c \in DOMAIN diff_df.cols :
            LET r1 == diff_df.cols[c][1]
                r2 == diff_df.cols[c][2]
                common == TimesOf(r1) \cap TimesOf(r2)
            IN  /\ {diff_df.rows[j].t : j \in RecordsOf(diff_df, c)} = common
                /\ Cardinality(RecordsOf(diff_df, c)) = Cardinality(common)
                /\ \A j \in RecordsOf(diff_df, c) :
                       diff_df.rows[j].cells[c] =
                           <<FSub(PhaseAt(r1, diff_df.rows[j].t),
                                  PhaseAt(r2, diff_df.rows[j].t))>>

\* time 1 is at radius 1 only and time 2 at radius 2 only: one record, of
\* time 0
C14_Witness ==
    /\ DifferencesDone
    /\ diff_df.cols = <<<<1, 2>>>>
    /\ TimesOf(1) = {0, 1}
    /\ TimesOf(2) = {0, 2}
    /\ Len(diff_df.rows) = 1
    /\ diff_df.rows[1].t = 0
    /\ diff_df.rows[1].cells[1] = <<FSub(PhaseAt(1, 0), PhaseAt(2, 0))>>

\* every selected radius has its rows at the same times
SameTimeGrid ==
    \A i \in DOMAIN r_selector : TimesOf(r_selector[i]) = TimesOf(r_selector[1])

\* C15: for a consecutive selection of n radii, sorted, whose rows are at
\* the same m times, the table of differences has n - 1 columns, the i-th one
\* of the pair (R_i, R_i+1), and each column holds m values.
C15_OneSeriesPerAdjacentPair ==
    (pc # "tab6_widgets" /\ Len(r_selector) >= 2 /\ consecutive(sorted(r_selector))
        /\ SameTimeGrid) =>
        LET sel == sorted(r_selector)
        IN  /\ outcome = "plotted"
            /\ diff_df.cols = [i \in 1..(Len(sel) - 1) |-> <<sel[i], sel[i + 1]>>]
            /\ \A c \in DOMAIN diff_df.cols :
                   Cardinality(RecordsOf(diff_df, c)) = Cardinality(TimesOf(sel[1]))

\* the spec's example: three radii on a grid of two times give the two
\* series 1-2 and 2-3 of two values each
C15_Witness ==
    /\ DifferencesDone
    /\ Len(r_selector) = 3
    /\ SameTimeGrid
    /\ TimesOf(1) = {0, 1}
    /\ diff_df.cols = <<<<1, 2>>, <<2, 3>>>>
    /\ Cardinality(RecordsOf(diff_df, 1)) = 2
    /\ Cardinality(RecordsOf(diff_df, 2)) = 2

Rejected ==
    /\ outcome = "Please select consecutive R values."
    /\ diff_df = Unset
    /\ adjusted_df = Unset

\* C16 as stated: a selection that, in the order the radii were picked, is
\* not increasing in steps of 1 is answered with the message asking for
\* consecutive radii, and no differences are computed.
C16_UnorderedSelectionRejected ==
    (/\ pc # "tab6_widgets"
     /\ \E i \in 1..(Len(r_selector) - 1) : r_selector[i] + 1 # r_selector[i + 1]) =>
        Rejected

SelectedRadii == {r_selector[i] : i \in DOMAIN r_selector}

\* C16 as amended: a selection whose radii, whatever order they were picked
\* in, leave a gap (some selected radius other than the largest has no
\* selected radius 1 above it) is answered with the message asking for
\* consecutive radii, and no differences are computed.
C16_GapInSelectionRejected ==
    (/\ pc # "tab6_widgets"
     /\ \E r \in SelectedRadii :
            /\ \E q \in SelectedRadii : q > r
            /\ r + 1 \notin SelectedRadii) =>
        Rejected

\* radii 1 and 3 were selected; the graph and the updated graph were asked for
C16_Witness ==
    /\ pc = "tab6_updated"
    /\ r_selector = <<1, 3>>
    /\ Rejected

\* C17: every value of the table of differences plotted without a window
\* lies in (-180, 180].
C17_RawDifferencesCanonical ==
    DifferencesDone =>
        \A c \in DOMAIN diff_df.cols : \A j \in RecordsOf(diff_df, c) :
            /\ diff_df.rows[j].cells[c][1] > Deg(0 - 180)
            /\ diff_df.rows[j].cells[c][1] <= Deg(180)

\* C18: the records of every difference column are in ascending order of t,
\* whatever order the rows of the table were read in.
C18_SeriesAscendingByTime ==
    DifferencesDone =>
        \A c \in DOMAIN diff_df.cols :
            \A j \in RecordsOf(diff_df, c) : \A k \in RecordsOf(diff_df, c) :
                j < k => diff_df.rows[j].t <= diff_df.rows[k].t

-----------------------------------------------------------------------------
(* calculate_differences as a function of its arguments *)

\* lists of radii to call it with: radii 1 to 3 have rows in every table,
\* radii 5 and 6 have none
CallSelections ==
    {<<1, 2, 3>>, <<1, 2, 5>>, <<5, 2, 3>>, <<1, 5>>, <<5, 6>>, <<1>>}

\* r_selector holds the argument selected_r_values
InitDifferences ==
    /\ pc = "call"
    /\ NoHV
    /\ csv \in RadiiTables
    /\ two_df = csv
    /\ two_pos_df = csv
    /\ NoShift
    /\ NoValue
    /\ NoWindow
    /\ r_selector \in CallSelections
    /\ metric_selector \in {"height", "velocity"}
    /\ diff_df = Unset
    /\ adjusted_df = Unset
    /\ saved_df = Unset
    /\ outcome = "none"

\* diff_df = calculate_differences(two_pos_df, selected_r_values, metric)
CallCalculateDifferences ==
    /\ pc = "call"
    /\ LET diffs == calculate_differences(two_pos_df, r_selector, metric_selector)
       IN  IF diffs.raised = "none"
           THEN outcome' = "returned" /\ diff_df' = diffs
           ELSE outcome' = diffs.raised /\ UNCHANGED diff_df
    /\ pc' = "called"
    /\ UNCHANGED <<notRadii, r_selector, metric_selector, adjusted_df, saved_df>>

NextDifferences == CallCalculateDifferences

SpecDifferences == InitDifferences /\ [][NextDifferences]_vars

\* the pairs of neighbours in the list whose two radii both have rows
PairsWithData ==
    SelectSeq([i \in 1..(Len(r_selector) - 1) |-> <<r_selector[i], r_selector[i + 1]>>],
              LAMBDA pair : TimesOf(pair[1]) # {} /\ TimesOf(pair[2]) # {})

\* C25: calculate_differences returns a table for every list of radii, its
\* columns the pairs of neighbours whose two radii both have rows: a pair
\* with a radius without rows is left out, and a list all of whose pairs are
\* left out gives an empty table.
C25_AlwaysReturnsResult ==
    pc = "called" =>
        /\ outcome = "returned"
        /\ diff_df.cols = PairsWithData

-----------------------------------------------------------------------------
(* the three wraps as functions of one value *)

\* values to wrap: the phases of the grid and the values adjust_value's loops
\* finish for
WrapGrid == ShiftGrid \cup {v \in ValueGrid : Abs(v) # Absorbing}

\* a table of one row of radius 1 whose height phase is the value and whose
\* velocity phase is 0, so that the value is also its raw difference
InitWraps ==
    /\ pc = "wraps"
    /\ arg \in WrapGrid
    /\ csv = <<Row(1, 0, 1, arg, 1, 0)>>
    /\ two_df = csv
    /\ two_pos_df = csv
    /\ start_point \in StartGrid
    /\ adjusted_height_df = Unset
    /\ adjusted_velocity_df = Unset
    /\ adjusted_combined_df = Unset
    /\ \E w \in WindowGrid : start_interval = w[1] /\ end_interval = w[2]
    /\ value = arg
    /\ ret = "pending"
    /\ odd_iterations = FALSE
    /\ NoRadii
    /\ selected_R_pha = 1
    /\ merged_df = Unset

\* adjust_phase_shifts on the value, with the start point
WrapPhaseShift ==
    /\ pc = "wraps"
    /\ adjusted_height_df = Unset
    /\ adjusted_height_df' = adjust_phase_shifts(two_pos_df, "C_height", start_point)
    /\ UNCHANGED <<pc, tableVars, start_point, adjusted_velocity_df,
                   adjusted_combined_df, windowVars, valueVars, radiiVars, hvVars>>

\* adjust_value on the value, with the window
WrapValue ==
    /\ pc = "wraps"
    /\ ret = "pending"
    /\ LET cell == adjust_value(<<arg>>, start_interval, end_interval)
       IN  IF cell = NaN
           THEN ret' = "None" /\ UNCHANGED value
           ELSE ret' = "value" /\ value' = cell[1]
    /\ UNCHANGED <<pc, tableVars, shiftVars, windowVars, arg, odd_iterations,
                   radiiVars, hvVars>>

\* adjust_phase_differencehv on the value, as the row's raw difference
WrapPhaseDifference ==
    /\ pc = "wraps"
    /\ merged_df = Unset
    /\ merged_df' = calculate_phase_difference(two_pos_df, selected_R_pha)
    /\ UNCHANGED <<pc, tableVars, shiftVars, windowVars, valueVars, radiiVars,
                   selected_R_pha>>

NextWraps ==
    \/ WrapPhaseShift
    \/ WrapValue
    \/ WrapPhaseDifference

SpecWraps == InitWraps /\ [][NextWraps]_vars

\* how far x is from the nearest y + 360 * k
TurnsApart(x, y) ==
    LET d == (x - y) % Deg(360)
    IN  IF d <= Deg(180) THEN d ELSE Deg(360) - d

ShiftResult == adjusted_height_df[1].C_height
DifferenceResult == merged_df[1].Phase_Difference

-----------------------------------------------------------------------------
(* claims about the windowed differences *)

Windowed == pc = "tab6_updated" /\ outcome = "plotted"

\* C7: every value of a windowed series returned by adjust_phase_interval
\* lies in [start, end], and the returned table holds no None or NaN.
C7_WindowedValuesInWindow ==
    Windowed =>
        \A j \in DOMAIN adjusted_df.rows :
            \A c \in DOMAIN adjusted_df.rows[j].cells :
                LET cell == adjusted_df.rows[j].cells[c]
                IN  /\ cell # NaN
                    /\ start_interval <= cell[1]
                    /\ cell[1] <= end_interval

\* a windowed table that kept a wrapped value and dropped another row
C7_Witness ==
    /\ Windowed
    /\ Len(adjusted_df.rows) = 1
    /\ Len(diff_df.rows) = 2
    /\ \E j \in DOMAIN diff_df.rows :
        /\ diff_df.rows[j].t = adjusted_df.rows[1].t
        /\ diff_df.rows[j].cells[1] # adjusted_df.rows[1].cells[1]

\* the whole turns a difference of two normalised phases may need
Turns == (0 - 2)..2

\* C19: of a table of two or more pairs, windowed, each column holds a record
\* for every time at which the pair's difference plus some multiple of 360
\* lies in [start, end], its value that sum, whatever the other columns hold.
C19_PairsWindowedIndependently ==
    (Windowed /\ Len(diff_df.cols) >= 2) =>
        \A c \in DOMAIN diff_df.cols : \A j \in RecordsOf(diff_df, c) :
            \A n \in Turns :
                LET wrapped == diff_df.rows[j].cells[c][1] + n * Deg(360)
                IN  (start_interval <= wrapped /\ wrapped <= end_interval) =>
                        \E k \in RecordsOf(adjusted_df, c) :
                            /\ adjusted_df.rows[k].t = diff_df.rows[j].t
                            /\ start_interval <= adjusted_df.rows[k].cells[c][1]
                            /\ adjusted_df.rows[k].cells[c][1] <= end_interval

\* the pairs of neighbours of a list of radii
NeighbourPairs(sel) == [i \in 1..(Len(sel) - 1) |-> <<sel[i], sel[i + 1]>>]

\* a table of differences was computed on the selection, sorted, and the
\* sorted selection is of two or more consecutive radii
OnSortedConsecutive(df) ==
    /\ Len(r_selector) >= 2
    /\ consecutive(sorted(r_selector))
    /\ df.cols = NeighbourPairs(sorted(r_selector))

\* C29: every table of differences of the view, plotted or saved, is
\* computed on the sorted selection, which is of two or more consecutive
\* radii.
C29_OnlySortedConsecutive ==
    /\ diff_df # Unset => OnSortedConsecutive(diff_df)
    /\ adjusted_df # Unset => OnSortedConsecutive(adjusted_df)
    /\ saved_df # Unset => OnSortedConsecutive(saved_df)

\* C9: with end <= start the windowed wrap fails with InvalidWindowError and
\* produces no wrapped series.
C9_DegenerateWindowRejected ==
    (pc = "tab6_updated" /\ consecutive(sorted(r_selector))
        /\ end_interval <= start_interval) =>
        (outcome = "InvalidWindowError" /\ adjusted_df = Unset)

====
